---- MODULE Spec2Model ----
(***************************************************************************)
(* The partition processor of kasper (package kasper, partitionProcessor): *)
(* the in-flight message groups of one partition, the interior prune, the  *)
(* offset-marking pass, the producer-ack path and the readiness predicate. *)
(***************************************************************************)
EXTENDS Integers, Sequences, FiniteSets, TLC

\* ------------------------------------------------------------------ bounds
\* Input records consumed over a run, all topics together.
MaxRecords == 3
\* Producer messages sent over a run, all records together (one record may
\* send them all).
MaxMessages == 2
\* Largest configured MaxInFlightMessageGroups explored (from 0).
MaxGroupsBound == 1
\* Largest persisted next offset and largest newest offset of a log at start-up.
MaxLogOffset == 3

\* ------------------------------------------------------- configuration
\* tp.inputTopics, in order.
inputTopics == <<"t1", "t2">>

Topics == {inputTopics[i] : i \in DOMAIN inputTopics}

\* The partition logs the partition consumers read: the offset that follows
\* `offset` in the log of `topic`.  The first topic's offsets are consecutive,
\* the other logs are compacted and skip every second offset.
FollowingOffset(topic, offset) == IF topic = inputTopics[1] THEN offset + 1 ELSE offset + 2

VARIABLES
    config,                          \* tp.config: commit discipline and MaxInFlightMessageGroups
    inFlightMessageGroups,           \* pp.inFlightMessageGroups: topic -> queue of groups
    commitNextInFlightMessageGroup,  \* pp.commitNextInFlightMessageGroup
    markedOffsets,                   \* per topic, the offsets passed to offsetManager.MarkOffset, in call order
    nextOffset,                      \* per topic, the offset of the record the partition consumer delivers next
    producerInput,                   \* producer messages dispatched to the broker whose ack has not been applied
    fatal,                           \* "none", or the log.Fatal that ended the worker
    processed,                       \* history: per topic, the records passed to process, in order
    acked,                           \* history: the producer messages onProducerAck was applied for
    blocked,                         \* history (glue): topics found not ready since the last applied ack
    last,                            \* history: the latest call and the state it started from
    resources,                       \* the broker side: stored and newest offsets, pp.partitionConsumers, the Close calls
    unpruned                         \* the queues and marks of the same calls with onProcessCompleted left out

vars == <<unpruned, resources, config, inFlightMessageGroups, commitNextInFlightMessageGroup, markedOffsets,
          nextOffset, producerInput, fatal, processed, acked, blocked, last>>

\* ---------------------------------------------------------- sequences
RECURSIVE Drop(_, _)
\* s[n+1:], the Go slice expression.
Drop(s, n) == IF n = 0 \/ s = <<>> THEN s ELSE Drop(Tail(s), n - 1)

\* ------------------------------------------------ sender, coordinator
\* newSender(pp, &incomingMessage): an empty staging buffer for one input record.
newSender(incomingMessage) ==
    [incomingMessage |-> incomingMessage, producerMessages |-> <<>>]

\* sender.Send(msg): append, with Metadata pointing at the originating
\* IncomingMessage.  The pointer identity of the message is (Metadata, id).
Send(sender) ==
    [sender EXCEPT !.producerMessages =
        Append(@, [Metadata |-> sender.incomingMessage, id |-> Len(@) + 1])]

RECURSIVE SendN(_, _)
SendN(sender, n) == IF n = 0 THEN sender ELSE SendN(Send(sender), n - 1)

\* sender.createInFlightMessageGroup(committed): one entry per submission, ack = false.
createInFlightMessageGroup(sender, committed) ==
    [incomingMessage  |-> sender.incomingMessage,
     inFlightMessages |-> [i \in 1..Len(sender.producerMessages) |->
                              [msg |-> sender.producerMessages[i], ack |-> FALSE]],
     committed        |-> committed]

\* group.allAcksAreTrue(): true of a group with no in-flight message.
allAcksAreTrue(group) ==
    \A i \in DOMAIN group.inFlightMessages : group.inFlightMessages[i].ack

\* config.markOffsetsManually() and config.markOffsetsAutomatically(): exactly one holds.
markOffsetsManually == config.markOffsetsManually

markOffsetsAutomatically == ~config.markOffsetsManually

\* ---------------------------------------------------------------- process
\* The user's MessageProcessor.Process: sends `sends` messages through the
\* sender and calls coordinator.Commit() when `commit`; Commit() raises
\* pp.commitNextInFlightMessageGroup.
UserProcess(sender, flag, sends, commit) ==
    [sender |-> SendN(sender, sends), flag |-> (flag \/ commit)]

\* Variant: the in-flight map is made anew with the queue of the record's
\* topic alone, which empties the queues of the other topics.
processKeepsOneTopic(groups, consumerMessage, sends, commit) ==
    LET incomingMessage == [Topic |-> consumerMessage.Topic, Offset |-> consumerMessage.Offset]
        sender == newSender(incomingMessage)
        user == UserProcess(sender, FALSE, sends, commit)
        inFlightMessageGroup == createInFlightMessageGroup(user.sender, user.flag)
    IN  [groups |-> [t \in DOMAIN groups |->
                        IF t = consumerMessage.Topic
                        THEN Append(groups[t], inFlightMessageGroup) ELSE <<>>],
         commitNext |-> user.flag,
         group |-> inFlightMessageGroup,
         producerMessages |-> user.sender.producerMessages]

\* Variant: pp.commitNextInFlightMessageGroup not reset before the user's
\* code runs, so that a commit requested for an earlier record stays raised.
processNoReset(groups, consumerMessage, sends, commit) ==
    LET incomingMessage == [Topic |-> consumerMessage.Topic, Offset |-> consumerMessage.Offset]
        sender == newSender(incomingMessage)
        user == UserProcess(sender, commitNextInFlightMessageGroup, sends, commit)
        inFlightMessageGroup == createInFlightMessageGroup(user.sender, user.flag)
    IN  [groups |-> [groups EXCEPT ![consumerMessage.Topic] = Append(@, inFlightMessageGroup)],
         commitNext |-> user.flag,
         group |-> inFlightMessageGroup,
         producerMessages |-> user.sender.producerMessages]

\* pp.process(consumerMessage), the user's code drawn as (sends, commit).
process(groups, consumerMessage, sends, commit) ==
    LET incomingMessage == [Topic |-> consumerMessage.Topic, Offset |-> consumerMessage.Offset]
        sender == newSender(incomingMessage)
        user == UserProcess(sender, FALSE, sends, commit)
        inFlightMessageGroup == createInFlightMessageGroup(user.sender, user.flag)
    IN  [groups |-> [groups EXCEPT ![consumerMessage.Topic] = Append(@, inFlightMessageGroup)],
         commitNext |-> user.flag,
         group |-> inFlightMessageGroup,
         producerMessages |-> user.sender.producerMessages]

\* ------------------------------------------------------------ interior prune
\* Variant: the break condition joined with "and", so that a head is dropped
\* as soon as one of the two first groups is complete.
RECURSIVE pruneDropsWhenEitherComplete(_)
pruneDropsWhenEitherComplete(queue) ==
    IF Len(queue) > 1
    THEN IF ~allAcksAreTrue(queue[1]) /\ ~allAcksAreTrue(queue[2])
         THEN queue
         ELSE pruneDropsWhenEitherComplete(Drop(queue, 1))
    ELSE queue

\* Variant: "if" in place of "for": at most one group dropped by a call.
pruneOnce(queue) ==
    IF Len(queue) > 1 /\ allAcksAreTrue(queue[1]) /\ allAcksAreTrue(queue[2])
    THEN Drop(queue, 1)
    ELSE queue

\* Variant: the head is dropped as soon as the group after it is complete,
\* complete or not itself.
RECURSIVE pruneChecksNextOnly(_)
pruneChecksNextOnly(queue) ==
    IF Len(queue) > 1
    THEN IF ~allAcksAreTrue(queue[2])
         THEN queue
         ELSE pruneChecksNextOnly(Drop(queue, 1))
    ELSE queue

\* Variant: the loop of markOffsetsForTopicIfPossible without its marking:
\* every complete group at the head is dropped, the last one too.
RECURSIVE pruneDropsWholePrefix(_)
pruneDropsWholePrefix(queue) ==
    IF Len(queue) > 0
    THEN IF ~allAcksAreTrue(queue[1])
         THEN queue
         ELSE pruneDropsWholePrefix(Drop(queue, 1))
    ELSE queue

RECURSIVE pruneInFlightMessageGroupsForTopic(_)
pruneInFlightMessageGroupsForTopic(queue) ==
    IF Len(queue) > 1
    THEN IF ~allAcksAreTrue(queue[1]) \/ ~allAcksAreTrue(queue[2])
         THEN queue
         ELSE pruneInFlightMessageGroupsForTopic(Drop(queue, 1))
    ELSE queue

RECURSIVE pruneInFlightMessageGroupsFrom(_, _)
pruneInFlightMessageGroupsFrom(groups, i) ==
    IF i > Len(inputTopics) THEN groups
    ELSE pruneInFlightMessageGroupsFrom(
            [groups EXCEPT ![inputTopics[i]] = pruneInFlightMessageGroupsForTopic(@)], i + 1)

pruneInFlightMessageGroups(groups) == pruneInFlightMessageGroupsFrom(groups, 1)

onProcessCompleted(groups) == pruneInFlightMessageGroups(groups)

\* -------------------------------------------------------------- readiness
\* Variant: the bound taken one too large.
isReadyOffByOne(groups, topic) ==
    Len(groups[topic]) <= config.MaxInFlightMessageGroups + 1

isReadyForMessage(groups, topic) ==
    Len(groups[topic]) <= config.MaxInFlightMessageGroups

\* ------------------------------------------------------ offset-marking pass
RECURSIVE markOffsetsLoop(_, _, _)
\* The for loop of markOffsetsForTopicIfPossible: pops complete head groups,
\* marking offset+1 for each committed one in manual mode.
markOffsetsLoop(queue, offset, marks) ==
    IF Len(queue) > 0
    THEN LET group == queue[1] IN
         IF ~allAcksAreTrue(group)
         THEN [queue |-> queue, offset |-> offset, marks |-> marks]
         ELSE LET o == group.incomingMessage.Offset IN
              markOffsetsLoop(Drop(queue, 1), o,
                  IF group.committed /\ markOffsetsManually
                  THEN Append(marks, o + 1) ELSE marks)
    ELSE [queue |-> queue, offset |-> offset, marks |-> marks]

\* Variant: the loop never breaks on an incomplete head.
RECURSIVE markLoopNoBreak(_, _, _)
markLoopNoBreak(queue, offset, marks) ==
    IF Len(queue) > 0
    THEN LET o == queue[1].incomingMessage.Offset IN
         markLoopNoBreak(Drop(queue, 1), o,
             IF queue[1].committed /\ markOffsetsManually THEN Append(marks, o + 1) ELSE marks)
    ELSE [queue |-> queue, offset |-> offset, marks |-> marks]

markOffsetsNoBreak(queue, marks) ==
    LET r == markLoopNoBreak(queue, -1, marks) IN
    [queue |-> r.queue,
     marks |-> IF r.offset # -1 /\ markOffsetsAutomatically
               THEN Append(r.marks, r.offset + 1) ELSE r.marks]

\* Variant: the automatic mark made without the test offset # -1.
markOffsetsNoSentinel(queue, marks) ==
    LET r == markOffsetsLoop(queue, -1, marks) IN
    [queue |-> r.queue,
     marks |-> IF markOffsetsAutomatically
               THEN Append(r.marks, r.offset + 1) ELSE r.marks]

\* Variant: the manual mark made for every complete group, committed or not.
RECURSIVE markLoopIgnoresCommitted(_, _, _)
markLoopIgnoresCommitted(queue, offset, marks) ==
    IF Len(queue) > 0 /\ allAcksAreTrue(queue[1])
    THEN LET o == queue[1].incomingMessage.Offset IN
         markLoopIgnoresCommitted(Drop(queue, 1), o,
             IF markOffsetsManually THEN Append(marks, o + 1) ELSE marks)
    ELSE [queue |-> queue, offset |-> offset, marks |-> marks]

markOffsetsIgnoresCommitted(queue, marks) ==
    LET r == markLoopIgnoresCommitted(queue, -1, marks) IN
    [queue |-> r.queue,
     marks |-> IF r.offset # -1 /\ markOffsetsAutomatically
               THEN Append(r.marks, r.offset + 1) ELSE r.marks]

\* Variant: the mark inside the loop made for committed groups in either mode.
RECURSIVE markLoopIgnoresMode(_, _, _)
markLoopIgnoresMode(queue, offset, marks) ==
    IF Len(queue) > 0 /\ allAcksAreTrue(queue[1])
    THEN LET o == queue[1].incomingMessage.Offset IN
         markLoopIgnoresMode(Drop(queue, 1), o,
             IF queue[1].committed THEN Append(marks, o + 1) ELSE marks)
    ELSE [queue |-> queue, offset |-> offset, marks |-> marks]

markOffsetsIgnoresMode(queue, marks) ==
    LET r == markLoopIgnoresMode(queue, -1, marks) IN
    [queue |-> r.queue,
     marks |-> IF r.offset # -1 /\ markOffsetsAutomatically
               THEN Append(r.marks, r.offset + 1) ELSE r.marks]

\* Variant: the loop bound of the interior prune, len > 1, used here.
RECURSIVE markLoopKeepsLast(_, _, _)
markLoopKeepsLast(queue, offset, marks) ==
    IF Len(queue) > 1 /\ allAcksAreTrue(queue[1])
    THEN LET o == queue[1].incomingMessage.Offset IN
         markLoopKeepsLast(Drop(queue, 1), o,
             IF queue[1].committed /\ markOffsetsManually THEN Append(marks, o + 1) ELSE marks)
    ELSE [queue |-> queue, offset |-> offset, marks |-> marks]

markOffsetsKeepsLast(queue, marks) ==
    LET r == markLoopKeepsLast(queue, -1, marks) IN
    [queue |-> r.queue,
     marks |-> IF r.offset # -1 /\ markOffsetsAutomatically
               THEN Append(r.marks, r.offset + 1) ELSE r.marks]

\* Variant: the automatic mark made one offset too far (offset + 2).
markOffsetsOneTooFar(queue, marks) ==
    LET r == markOffsetsLoop(queue, -1, marks) IN
    [queue |-> r.queue,
     marks |-> IF r.offset # -1 /\ markOffsetsAutomatically
               THEN Append(r.marks, r.offset + 2) ELSE r.marks]

\* markOffsetsForTopicIfPossible(topic) on the topic's queue and the topic's
\* MarkOffset log: the queue and the log it leaves.
markOffsetsForTopicIfPossible(queue, marks) ==
    LET r == markOffsetsLoop(queue, -1, marks) IN
    [queue |-> r.queue,
     marks |-> IF r.offset # -1 /\ markOffsetsAutomatically
               THEN Append(r.marks, r.offset + 1) ELSE r.marks]

RECURSIVE markOffsetsFrom(_, _, _)
markOffsetsFrom(groups, marked, i) ==
    IF i > Len(inputTopics) THEN [groups |-> groups, marked |-> marked]
    ELSE LET topic == inputTopics[i]
             r == markOffsetsForTopicIfPossible(groups[topic], marked[topic])
         IN  markOffsetsFrom([groups EXCEPT ![topic] = r.queue],
                             [marked EXCEPT ![topic] = r.marks], i + 1)

markOffsetsIfPossible(groups, marked) == markOffsetsFrom(groups, marked, 1)

\* ------------------------------------------------------------ producer ack
\* The least index of seq whose element is in the set `hits`, 0 when none.
FirstIndex(seq, hits) ==
    IF \E i \in DOMAIN seq : seq[i] \in hits
    THEN CHOOSE i \in DOMAIN seq : seq[i] \in hits /\ \A j \in 1..(i - 1) : seq[j] \notin hits
    ELSE 0

\* Variant: every message of the group found is acked, not only sentMessage.
onProducerAckWholeGroup(groups, sentMessage) ==
    LET incomingMessage == sentMessage.Metadata
        queue == groups[incomingMessage.Topic]
        gi == FirstIndex(queue, {g \in {queue[k] : k \in DOMAIN queue} :
                                    g.incomingMessage = incomingMessage})
    IN  IF gi = 0 THEN [groups |-> groups, fatal |-> "group"]
        ELSE [groups |-> [groups EXCEPT ![incomingMessage.Topic][gi].inFlightMessages =
                            [i \in DOMAIN @ |-> [@[i] EXCEPT !.ack = TRUE]]],
              fatal |-> "none"]

\* onProducerAck(sentMessage): the groups it leaves and the log.Fatal it ends in.
onProducerAck(groups, sentMessage) ==
    LET incomingMessage == sentMessage.Metadata
        queue == groups[incomingMessage.Topic]
        gi == FirstIndex(queue, {g \in {queue[k] : k \in DOMAIN queue} :
                                    g.incomingMessage = incomingMessage})
    IN  IF gi = 0 THEN [groups |-> groups, fatal |-> "group"]
        ELSE LET msgs == queue[gi].inFlightMessages
                 mi == FirstIndex(msgs, {x \in {msgs[k] : k \in DOMAIN msgs} :
                                            x.msg = sentMessage})
             IN  IF mi = 0 THEN [groups |-> groups, fatal |-> "msg"]
                 ELSE [groups |-> [groups EXCEPT
                          ![incomingMessage.Topic][gi].inFlightMessages[mi].ack = TRUE],
                       fatal |-> "none"]

\* ------------------------------------------------------------------ state
Configs == [markOffsetsManually : BOOLEAN, MaxInFlightMessageGroups : 0..MaxGroupsBound]

\* The records of all topics passed to process so far.
Consumed == LET n[i \in 0..Len(inputTopics)] ==
                    IF i = 0 THEN 0 ELSE n[i - 1] + Len(processed[inputTopics[i]])
            IN  n[Len(inputTopics)]

Call(op, topic, msgs) ==
    [op |-> op, topic |-> topic, msgs |-> msgs,
     groups |-> inFlightMessageGroups, marked |-> markedOffsets]

\* ------------------------------------------------- start-up and shutdown
\* sarama.OffsetNewest.
OffsetNewest == -1

\* Variant: the clamp taken at equality too (>= in place of >).
StartOffsetClampsAtEqual(storedOffset, newestOffset) ==
    IF storedOffset >= newestOffset THEN OffsetNewest ELSE storedOffset

\* The offset newPartitionProcessor passes to ConsumePartition for a topic
\* whose offset manager returns storedOffset and whose log ends at newestOffset.
StartOffset(storedOffset, newestOffset) ==
    IF storedOffset > newestOffset THEN OffsetNewest ELSE storedOffset

\* The partitionConsumers slice newPartitionProcessor builds, as the offsets
\* the consumers are opened at, aligned with inputTopics.
newPartitionConsumers(stored, newest) ==
    [i \in 1..Len(inputTopics) |-> StartOffset(stored[inputTopics[i]], newest[inputTopics[i]])]

\* Variant: the partition consumers closed before the offset managers.
onShutdownConsumersFirst(managers) ==
    [i \in 1..Len(inputTopics) |-> [kind |-> "partitionConsumer", topic |-> inputTopics[i]]]
    \o [i \in 1..Len(managers) |-> [kind |-> "offsetManager", topic |-> managers[i]]]
    \o <<[kind |-> "consumer", topic |-> ""]>>

\* onShutdown(): the Close calls it makes, in order.  `managers` is the order
\* in which the range over the pp.offsetManagers map yields its topics.
onShutdown(managers) ==
    [i \in 1..Len(managers) |-> [kind |-> "offsetManager", topic |-> managers[i]]]
    \o [i \in 1..Len(inputTopics) |-> [kind |-> "partitionConsumer", topic |-> inputTopics[i]]]
    \o <<[kind |-> "consumer", topic |-> ""]>>

\* The orders a range over the pp.offsetManagers map can take.
MapOrders ==
    {m \in [1..Len(inputTopics) -> Topics] : \A i, j \in DOMAIN m : m[i] = m[j] => i = j}

\* The broker side of a running partition processor that started on logs
\* holding its stored offsets.
Running ==
    [phase |-> "running",
     stored |-> [t \in Topics |-> 0], newest |-> [t \in Topics |-> 0],
     partitionConsumers |-> newPartitionConsumers([t \in Topics |-> 0], [t \in Topics |-> 0]),
     closed |-> <<>>]

\* newPartitionProcessor: empty in-flight queues, commit flag false.
Start(configs) ==
    /\ resources = Running
    /\ unpruned = [groups |-> [t \in Topics |-> <<>>], marked |-> [t \in Topics |-> <<>>]]
    /\ config \in configs
    /\ inFlightMessageGroups = [t \in Topics |-> <<>>]
    /\ commitNextInFlightMessageGroup = FALSE
    /\ markedOffsets = [t \in Topics |-> <<>>]
    /\ nextOffset = [t \in Topics |-> 0]
    /\ producerInput = {}
    /\ fatal = "none"
    /\ processed = [t \in Topics |-> <<>>]
    /\ acked = {}
    /\ blocked = {}
    /\ last = [op |-> "new", topic |-> "", msgs |-> {},
               groups |-> [t \in Topics |-> <<>>], marked |-> [t \in Topics |-> <<>>]]

ToSet(seq) == {seq[i] : i \in DOMAIN seq}

\* The offset a restarted worker consumes `topic` from: pom.NextOffset(), the
\* last offset passed to MarkOffset, or the offset consumption began at when
\* none was marked.
RestartOffset(topic) ==
    IF markedOffsets[topic] = <<>> THEN 0
    ELSE markedOffsets[topic][Len(markedOffsets[topic])]

\* The run stays within the bounds when one more record sends `sends` messages.
CanConsume(sends) ==
    /\ Consumed < MaxRecords
    /\ Cardinality(acked) + Cardinality(producerInput) + sends <= MaxMessages

\* The history entry of a record passed to process: its offset, the messages
\* process returned, the committed flag of the group process enqueued and
\* whether the user's code called coordinator.Commit().
Record(offset, r, commit) ==
    [Offset |-> offset, msgs |-> ToSet(r.producerMessages),
     committed |-> r.group.committed, requested |-> commit]

\* The readiness bound plays no part when the operations are called freely.
Init == Start({c \in Configs : c.MaxInFlightMessageGroups = 0})

\* ---------------------------------------------------------------- calls
\* process(consumerMessage) for the next record of `topic`; the caller
\* dispatches the returned messages.
Process(topic, sends, commit) ==
    LET offset == nextOffset[topic]
        r == process(inFlightMessageGroups, [Topic |-> topic, Offset |-> offset], sends, commit)
    IN  /\ fatal = "none"
        /\ CanConsume(sends)
        /\ inFlightMessageGroups' = r.groups
        /\ unpruned' = [unpruned EXCEPT !.groups[topic] = Append(@, r.group)]
        /\ commitNextInFlightMessageGroup' = r.commitNext
        /\ producerInput' = producerInput \cup ToSet(r.producerMessages)
        /\ nextOffset' = [nextOffset EXCEPT ![topic] = FollowingOffset(topic, offset)]
        /\ processed' = [processed EXCEPT ![topic] =
                            Append(@, Record(offset, r, commit))]
        /\ last' = Call("process", topic, ToSet(r.producerMessages))
        /\ UNCHANGED <<resources, config, markedOffsets, fatal, acked, blocked>>

OnProcessCompleted ==
    /\ fatal = "none"
    /\ inFlightMessageGroups' = onProcessCompleted(inFlightMessageGroups)
    /\ last' = Call("onProcessCompleted", "", {})
    /\ UNCHANGED <<unpruned, resources, config, commitNextInFlightMessageGroup, markedOffsets, nextOffset,
                   producerInput, fatal, processed, acked, blocked>>

OnProducerAck(sentMessage) ==
    LET r == onProducerAck(inFlightMessageGroups, sentMessage) IN
    /\ fatal = "none"
    /\ sentMessage \in producerInput
    /\ inFlightMessageGroups' = r.groups
    /\ unpruned' = [unpruned EXCEPT !.groups = onProducerAck(@, sentMessage).groups]
    /\ fatal' = r.fatal
    /\ producerInput' = producerInput \ {sentMessage}
    /\ acked' = acked \cup {sentMessage}
    /\ last' = Call("onProducerAck", sentMessage.Metadata.Topic, {sentMessage})
    /\ UNCHANGED <<resources, config, commitNextInFlightMessageGroup, markedOffsets, nextOffset,
                   processed, blocked>>

MarkOffsetsIfPossible ==
    LET r == markOffsetsIfPossible(inFlightMessageGroups, markedOffsets) IN
    /\ fatal = "none"
    /\ inFlightMessageGroups' = r.groups
    /\ unpruned' = markOffsetsIfPossible(unpruned.groups, unpruned.marked)
    /\ markedOffsets' = r.marked
    /\ last' = Call("markOffsetsIfPossible", "", {})
    /\ UNCHANGED <<resources, config, commitNextInFlightMessageGroup, nextOffset, producerInput,
                   fatal, processed, acked, blocked>>

Next ==
    \/ \E topic \in Topics, sends \in 0..MaxMessages, commit \in BOOLEAN :
          Process(topic, sends, commit)
    \/ OnProcessCompleted
    \/ \E sentMessage \in producerInput : OnProducerAck(sentMessage)
    \/ MarkOffsetsIfPossible

\* Any sequence of calls of the partition processor's operations.
Spec == Init /\ [][Next]_vars

\* ------------------------------------------------------------ life cycle
\* Before construction: any stored next offsets and newest offsets of the logs.
LifecycleInit ==
    /\ resources \in [phase : {"new"},
                      stored : [Topics -> 0..MaxLogOffset],
                      newest : [Topics -> 0..MaxLogOffset],
                      partitionConsumers : {<<>>},
                      closed : {<<>>}]
    /\ unpruned = [groups |-> [t \in Topics |-> <<>>], marked |-> [t \in Topics |-> <<>>]]
    /\ config \in {c \in Configs : c.MaxInFlightMessageGroups = 0 /\ ~c.markOffsetsManually}
    /\ inFlightMessageGroups = [t \in Topics |-> <<>>]
    /\ commitNextInFlightMessageGroup = FALSE
    /\ markedOffsets = [t \in Topics |-> <<>>]
    /\ nextOffset = [t \in Topics |-> 0]
    /\ producerInput = {}
    /\ fatal = "none"
    /\ processed = [t \in Topics |-> <<>>]
    /\ acked = {}
    /\ blocked = {}
    /\ last = [op |-> "new", topic |-> "", msgs |-> {},
               groups |-> [t \in Topics |-> <<>>], marked |-> [t \in Topics |-> <<>>]]

\* newPartitionProcessor(tp, mp, partition).
NewPartitionProcessor ==
    /\ resources.phase = "new"
    /\ resources' = [resources EXCEPT
          !.phase = "running",
          !.partitionConsumers = newPartitionConsumers(resources.stored, resources.newest)]
    /\ UNCHANGED <<unpruned, config, inFlightMessageGroups, commitNextInFlightMessageGroup,
                   markedOffsets, nextOffset, producerInput, fatal, processed, acked,
                   blocked, last>>

\* onShutdown().
OnShutdown(managers) ==
    /\ resources.phase = "running"
    /\ resources' = [resources EXCEPT !.phase = "closed", !.closed = onShutdown(managers)]
    /\ UNCHANGED <<unpruned, config, inFlightMessageGroups, commitNextInFlightMessageGroup,
                   markedOffsets, nextOffset, producerInput, fatal, processed, acked,
                   blocked, last>>

LifecycleNext ==
    \/ NewPartitionProcessor
    \/ \E managers \in MapOrders : OnShutdown(managers)

\* Construction and shutdown of a partition processor.
LifecycleSpec == LifecycleInit /\ [][LifecycleNext]_vars

\* ------------------------------------------------------------ topology glue
\* The topic processor's loop for this partition: a record is polled only when
\* its topic is ready; process, dispatch and onProcessCompleted follow one
\* another; every producer ack is followed by markOffsetsIfPossible.
GlueInit == Start(Configs)

\* A record of `topic` is delivered: process, dispatch, onProcessCompleted.
GlueRecord(topic, sends, commit) ==
    LET offset == nextOffset[topic]
        r == process(inFlightMessageGroups, [Topic |-> topic, Offset |-> offset], sends, commit)
    IN  /\ fatal = "none"
        /\ CanConsume(sends)
        /\ isReadyForMessage(inFlightMessageGroups, topic)
        /\ inFlightMessageGroups' = onProcessCompleted(r.groups)
        /\ unpruned' = [unpruned EXCEPT !.groups[topic] = Append(@, r.group)]
        /\ commitNextInFlightMessageGroup' = r.commitNext
        /\ producerInput' = producerInput \cup ToSet(r.producerMessages)
        /\ nextOffset' = [nextOffset EXCEPT ![topic] = FollowingOffset(topic, offset)]
        /\ processed' = [processed EXCEPT ![topic] = Append(@, Record(offset, r, commit))]
        /\ last' = Call("record", topic, ToSet(r.producerMessages))
        /\ UNCHANGED <<resources, config, markedOffsets, fatal, acked, blocked>>

\* The next record belongs to `topic` and isReadyForMessage returns false:
\* the loop waits for an ack.
GlueNotReady(topic) ==
    /\ fatal = "none"
    /\ ~isReadyForMessage(inFlightMessageGroups, topic)
    /\ topic \notin blocked
    /\ blocked' = blocked \cup {topic}
    /\ last' = Call("notReady", topic, {})
    /\ UNCHANGED <<unpruned, resources, config, inFlightMessageGroups, commitNextInFlightMessageGroup,
                   markedOffsets, nextOffset, producerInput, fatal, processed, acked>>

\* A producer ack arrives: onProducerAck, then markOffsetsIfPossible.
GlueAck(sentMessage) ==
    LET a == onProducerAck(inFlightMessageGroups, sentMessage)
        r == markOffsetsIfPossible(a.groups, markedOffsets)
    IN  /\ fatal = "none"
        /\ sentMessage \in producerInput
        /\ fatal' = a.fatal
        /\ unpruned' = markOffsetsIfPossible(onProducerAck(unpruned.groups, sentMessage).groups,
                                             unpruned.marked)
        /\ inFlightMessageGroups' = IF a.fatal = "none" THEN r.groups ELSE a.groups
        /\ markedOffsets' = IF a.fatal = "none" THEN r.marked ELSE markedOffsets
        /\ producerInput' = producerInput \ {sentMessage}
        /\ acked' = acked \cup {sentMessage}
        /\ blocked' = {}
        /\ last' = Call("ack", sentMessage.Metadata.Topic, {sentMessage})
        /\ UNCHANGED <<resources, config, commitNextInFlightMessageGroup, nextOffset, processed>>

GlueNext ==
    \/ \E topic \in Topics, sends \in 0..MaxMessages, commit \in BOOLEAN :
          GlueRecord(topic, sends, commit)
    \/ \E topic \in Topics : GlueNotReady(topic)
    \/ \E sentMessage \in producerInput : GlueAck(sentMessage)

\* The partition processor driven by the topology glue.
GlueSpec == GlueInit /\ [][GlueNext]_vars

\* The glue with the broker acknowledging every dispatched message: an ack
\* that stays deliverable is delivered.  Nothing makes input records arrive.
GlueFairSpec ==
    GlueSpec /\ WF_vars(\E sentMessage \in producerInput : GlueAck(sentMessage))

\* ============================================================== properties
\* The offsets the latest call passed to MarkOffset for `topic`, in call order.
NewMarks(topic) ==
    SubSeq(markedOffsets[topic], Len(last.marked[topic]) + 1, Len(markedOffsets[topic]))

\* The number of groups the latest call took off the queue of `topic`.
RemovedCount(topic) == Len(last.groups[topic]) - Len(inFlightMessageGroups[topic])

\* The latest call took groups off the head of the queue of `topic` only.
HeadRemoval(topic) ==
    /\ RemovedCount(topic) >= 0
    /\ inFlightMessageGroups[topic] = Drop(last.groups[topic], RemovedCount(topic))

\* Every message process returned for the record has had its ack applied.
Complete(record) == record.msgs \subseteq acked

\* The record's group is still in the queue of `topic`.
InQueue(topic, record) ==
    \E k \in DOMAIN inFlightMessageGroups[topic] :
        inFlightMessageGroups[topic][k].incomingMessage.Offset = record.Offset

\* C1: whenever MarkOffset(t, o) is called, o is 1 + the offset of a record of t
\* whose messages are all acked at that moment, and every record of t with a
\* smaller offset that was passed to process has all its messages acked too.
C1_MarkOnlyAfterAcks ==
    \A t \in Topics : \A i \in DOMAIN NewMarks(t) :
        LET o == NewMarks(t)[i] IN
        /\ \E k \in DOMAIN processed[t] :
              processed[t][k].Offset + 1 = o /\ Complete(processed[t][k])
        /\ \A k \in DOMAIN processed[t] :
              processed[t][k].Offset < o => Complete(processed[t][k])

\* A mark was made while a later record of the topic still waits for an ack.
C1_Witness ==
    /\ last.op = "markOffsetsIfPossible"
    /\ \E t \in Topics :
          /\ NewMarks(t) # <<>>
          /\ \E k \in DOMAIN processed[t] : ~Complete(processed[t][k])
          /\ \E k \in DOMAIN processed[t] : processed[t][k].msgs # {} /\ Complete(processed[t][k])

\* C2: the offsets passed to MarkOffset for a topic are strictly increasing,
\* in manual and in automatic mode.
C2_MarksStrictlyIncreasing ==
    \A t \in Topics : \A i, j \in DOMAIN markedOffsets[t] :
        i < j => markedOffsets[t][i] < markedOffsets[t][j]

\* Three marks were made for one topic.
C2_Witness ==
    \E t \in Topics : Len(markedOffsets[t]) >= 3

\* C3: in manual mode every offset passed to MarkOffset is 1 + the offset of
\* a group whose committed flag is true.
C3_ManualMarksCommittedOnly ==
    markOffsetsManually =>
        \A t \in Topics : \A i \in DOMAIN markedOffsets[t] :
            \E k \in DOMAIN processed[t] :
                /\ processed[t][k].committed
                /\ processed[t][k].Offset + 1 = markedOffsets[t][i]

\* Manual mode: the pass marked a committed group and popped an uncommitted
\* complete one without a mark.
C3_Witness ==
    /\ markOffsetsManually
    /\ last.op = "markOffsetsIfPossible"
    /\ \E t \in Topics :
          /\ Len(NewMarks(t)) = 1
          /\ RemovedCount(t) >= 2

\* C4: in manual mode no group whose committed flag is true leaves its queue
\* without MarkOffset(offset + 1) having been called for it.
C4_CommitNeverLost ==
    markOffsetsManually =>
        \A t \in Topics : \A k \in DOMAIN processed[t] :
            (processed[t][k].committed /\ ~InQueue(t, processed[t][k])) =>
                \E i \in DOMAIN markedOffsets[t] :
                    markedOffsets[t][i] = processed[t][k].Offset + 1

\* C5: in automatic mode a call of markOffsetsIfPossible that takes groups off
\* the queue of a topic calls MarkOffset for the topic once, with 1 + the
\* offset of the last group taken; a call that takes none makes no MarkOffset
\* call for the topic, and none is taken while the head group is incomplete.
C5_AutomaticMarksEndOfPrefix ==
    (last.op = "markOffsetsIfPossible" /\ markOffsetsAutomatically) =>
        \A t \in Topics :
            LET n == RemovedCount(t) IN
            /\ HeadRemoval(t)
            /\ SubSeq(markedOffsets[t], 1, Len(last.marked[t])) = last.marked[t]
            /\ NewMarks(t) = IF n > 0
                             THEN <<last.groups[t][n].incomingMessage.Offset + 1>>
                             ELSE <<>>
            /\ (last.groups[t] # <<>> /\ ~allAcksAreTrue(last.groups[t][1])) => n = 0

\* Automatic mode: one call popped a prefix of two groups of one topic, one of
\* them committed, and left the other topic, whose head is incomplete, alone.
C5_Witness ==
    /\ last.op = "markOffsetsIfPossible"
    /\ markOffsetsAutomatically
    /\ \E t, u \in Topics :
          /\ RemovedCount(t) >= 2
          /\ last.groups[t][1].committed
          /\ inFlightMessageGroups[u] # <<>>
          /\ RemovedCount(u) = 0

\* C6: every group that onProcessCompleted or markOffsetsIfPossible takes off
\* a queue is taken from its head and is complete when taken.
C6_RemovedGroupsComplete ==
    last.op \in {"onProcessCompleted", "markOffsetsIfPossible"} =>
        \A t \in Topics :
            /\ HeadRemoval(t)
            /\ \A i \in 1..RemovedCount(t) : allAcksAreTrue(last.groups[t][i])

\* The interior prune dropped a group with messages, all acked, and kept a
\* queue whose head is followed by an incomplete group.
C6_Witness ==
    /\ last.op = "onProcessCompleted"
    /\ \E t \in Topics :
          /\ RemovedCount(t) >= 1
          /\ last.groups[t][1].inFlightMessages # <<>>
          /\ Len(inFlightMessageGroups[t]) >= 2
          /\ ~allAcksAreTrue(inFlightMessageGroups[t][2])

\* C7: right after markOffsetsIfPossible every queue is empty or has an
\* incomplete head.
C7_HeadIncompleteAfterMark ==
    last.op = "markOffsetsIfPossible" =>
        \A t \in Topics :
            \/ inFlightMessageGroups[t] = <<>>
            \/ ~allAcksAreTrue(inFlightMessageGroups[t][1])

\* The pass popped a group of one topic and stopped at an incomplete head,
\* and emptied the queue of the other topic.
C7_Witness ==
    /\ last.op = "markOffsetsIfPossible"
    /\ \E t, u \in Topics :
          /\ RemovedCount(t) >= 1
          /\ inFlightMessageGroups[t] # <<>>
          /\ RemovedCount(u) >= 1
          /\ inFlightMessageGroups[u] = <<>>

\* The in-flight message of sentMessage, as it was before the latest call.
Targets(sentMessage) ==
    {<<t, k, i>> \in Topics \X (1..MaxRecords) \X (1..MaxMessages) :
        /\ k \in DOMAIN last.groups[t]
        /\ i \in DOMAIN last.groups[t][k].inFlightMessages
        /\ last.groups[t][k].inFlightMessages[i].msg = sentMessage}

\* C8: onProducerAck(sentMessage) for a message in flight sets the ack flag of
\* that message's InFlightMessage, which was false, and changes no other ack
\* flag, no group, no committed flag and no queue, and calls no MarkOffset;
\* no call of any operation turns an ack flag from true to false.
C8_AckSetsOneFlag ==
    /\ last.op = "onProducerAck" =>
          \A sentMessage \in last.msgs :
              /\ fatal = "none"
              /\ markedOffsets = last.marked
              /\ Cardinality(Targets(sentMessage)) = 1
              /\ \A t \in Topics :
                    /\ Len(inFlightMessageGroups[t]) = Len(last.groups[t])
                    /\ \A k \in DOMAIN last.groups[t] :
                          LET before == last.groups[t][k]
                              after == inFlightMessageGroups[t][k]
                          IN  /\ after.incomingMessage = before.incomingMessage
                              /\ after.committed = before.committed
                              /\ DOMAIN after.inFlightMessages = DOMAIN before.inFlightMessages
                              /\ \A i \in DOMAIN before.inFlightMessages :
                                    /\ after.inFlightMessages[i].msg = before.inFlightMessages[i].msg
                                    /\ after.inFlightMessages[i].ack =
                                          IF before.inFlightMessages[i].msg = sentMessage
                                          THEN TRUE
                                          ELSE before.inFlightMessages[i].ack
                                    /\ before.inFlightMessages[i].msg = sentMessage =>
                                          ~before.inFlightMessages[i].ack
    /\ \A t \in Topics : \A k \in DOMAIN last.groups[t] :
          \A j \in DOMAIN inFlightMessageGroups[t] :
              inFlightMessageGroups[t][j].incomingMessage = last.groups[t][k].incomingMessage =>
                  \A i \in DOMAIN last.groups[t][k].inFlightMessages :
                      last.groups[t][k].inFlightMessages[i].ack =>
                          inFlightMessageGroups[t][j].inFlightMessages[i].ack

\* An ack was applied to one message of a group of two; the other message of
\* the group is still unacked.
C8_Witness ==
    /\ last.op = "onProducerAck"
    /\ \E t \in Topics : \E k \in DOMAIN inFlightMessageGroups[t] :
          LET msgs == inFlightMessageGroups[t][k].inFlightMessages IN
          /\ \E i \in DOMAIN msgs : msgs[i].msg \in last.msgs /\ msgs[i].ack
          /\ \E i \in DOMAIN msgs : ~msgs[i].ack

\* C9: under the glue, which calls process for a record of a topic only when
\* isReadyForMessage holds for it, no queue ever holds more than
\* MaxInFlightMessageGroups + 1 groups, whatever the configured bound (with
\* bound 0: never more than one group).
C9_QueueLengthBound ==
    \A t \in Topics :
        Len(inFlightMessageGroups[t]) <= config.MaxInFlightMessageGroups + 1

\* A queue holds MaxInFlightMessageGroups + 1 groups, for a bound above 0,
\* and its topic was found not ready.
C9_Witness ==
    \E t \in Topics :
        /\ config.MaxInFlightMessageGroups >= 1
        /\ Len(inFlightMessageGroups[t]) = config.MaxInFlightMessageGroups + 1
        /\ t \in blocked

\* C10: under the glue, once isReadyForMessage has returned false for a
\* record of a topic, process is not called for a record of that topic until
\* an ack has been applied.
C10_NoProcessWhileNotReady ==
    [][\A t \in blocked : processed'[t] = processed[t]]_vars

\* A topic was found not ready and, with no ack applied since, a record of
\* another topic was processed.
C10_Witness ==
    /\ last.op = "record"
    /\ \E t \in blocked : t # last.topic

\* C11: in every reachable state, a worker restarted from the last offset
\* marked for a topic (or from the start when none was marked) consumes again
\* every record of the topic that has a message not yet acked: no such record
\* lies below the restart offset.
C11_UnackedRecordsAreReplayed ==
    \A t \in Topics : \A k \in DOMAIN processed[t] :
        ~Complete(processed[t][k]) => processed[t][k].Offset >= RestartOffset(t)

\* An offset was marked for a topic and a later record of the topic, at the
\* restart offset or above, still waits for an ack.
C11_Witness ==
    \E t \in Topics :
        /\ markedOffsets[t] # <<>>
        /\ \E k \in DOMAIN processed[t] :
              ~Complete(processed[t][k]) /\ processed[t][k].Offset >= RestartOffset(t)

\* The offsets input records of a run can have.
Offsets == 0..(2 * MaxRecords)

\* The head of the queue of `topic` is the group of the record at `offset`,
\* which sent no message and requested no commit.
EmptyGroupAtHead(topic, offset) ==
    /\ inFlightMessageGroups[topic] # <<>>
    /\ inFlightMessageGroups[topic][1].incomingMessage.Offset = offset
    /\ inFlightMessageGroups[topic][1].inFlightMessages = <<>>
    /\ ~inFlightMessageGroups[topic][1].committed

\* C12: in automatic mode under the glue, once the group of a record at
\* offset o that sent no message and requested no commit is at the head of
\* its queue, the offset marked for the topic eventually reaches o + 1, even
\* when no further record and no further ack arrives.
C12_EmptyGroupEventuallyMarked ==
    \A t \in Topics : \A o \in Offsets :
        (markOffsetsAutomatically /\ EmptyGroupAtHead(t, o))
            ~> (markedOffsets[t] # <<>> /\ RestartOffset(t) >= o + 1)

\* C13: onProcessCompleted is idempotent: right after a call of it, with no
\* ack and no process in between, a second call leaves every queue as the
\* first call left it (the operation has no access to the marked offsets).
C13_OnProcessCompletedIdempotent ==
    last.op = "onProcessCompleted" =>
        onProcessCompleted(inFlightMessageGroups) = inFlightMessageGroups

\* A call of onProcessCompleted dropped two groups of one queue and left a
\* complete group at its head.
C13_Witness ==
    /\ last.op = "onProcessCompleted"
    /\ \E t \in Topics :
          /\ RemovedCount(t) >= 2
          /\ inFlightMessageGroups[t] # <<>>
          /\ allAcksAreTrue(inFlightMessageGroups[t][1])

\* C14: at start-up the partition consumer of each input topic is opened at
\* the newest position when the stored next offset exceeds the newest offset
\* of the log, and at exactly the stored next offset otherwise (also when the
\* two are equal).
C14_ColdStartOffset ==
    resources.phase # "new" =>
        \A i \in DOMAIN inputTopics :
            LET no == resources.stored[inputTopics[i]]
                mo == resources.newest[inputTopics[i]]
            IN  /\ no > mo => resources.partitionConsumers[i] = OffsetNewest
                /\ no <= mo => resources.partitionConsumers[i] = no

\* One topic's stored offset equals its log's newest offset, above 0, and its
\* consumer is opened at it; the other's exceeds it and its consumer is opened
\* at the newest position.
C14_Witness ==
    /\ resources.phase = "running"
    /\ resources.stored[inputTopics[1]] = resources.newest[inputTopics[1]]
    /\ resources.stored[inputTopics[1]] > 0
    /\ resources.partitionConsumers[1] = resources.stored[inputTopics[1]]
    /\ resources.stored[inputTopics[2]] > resources.newest[inputTopics[2]]
    /\ resources.partitionConsumers[2] = OffsetNewest

\* The positions of the Close calls of one kind of resource.
Closes(kind) ==
    {i \in DOMAIN resources.closed : resources.closed[i].kind = kind}

\* C20: onShutdown closes every partition offset manager before any partition
\* consumer and every partition consumer before the broker consumer, each
\* resource once.
C20_ShutdownOrder ==
    resources.phase = "closed" =>
        /\ \A i \in Closes("offsetManager") : \A j \in Closes("partitionConsumer") : i < j
        /\ \A j \in Closes("partitionConsumer") : \A k \in Closes("consumer") : j < k
        /\ Cardinality(Closes("consumer")) = 1
        /\ \A t \in Topics :
              /\ Cardinality({i \in Closes("offsetManager") : resources.closed[i].topic = t}) = 1
              /\ Cardinality({i \in Closes("partitionConsumer") : resources.closed[i].topic = t}) = 1
        /\ Len(resources.closed) = 2 * Cardinality(Topics) + 1

\* A shutdown whose range over the offset managers took the topics in another
\* order than inputTopics.
C20_Witness ==
    /\ resources.phase = "closed"
    /\ resources.closed[1] = [kind |-> "offsetManager", topic |-> inputTopics[2]]

\* C15: the committed flag of the group process enqueues equals whether the
\* user's code called coordinator.Commit() during that very call (a request
\* made for an earlier record of any topic does not carry over), and the flag
\* of a queued group stays what it was when the group was enqueued.
C15_CommittedIffRequested ==
    \A t \in Topics :
        /\ \A k \in DOMAIN processed[t] : processed[t][k].committed = processed[t][k].requested
        /\ \A i \in DOMAIN inFlightMessageGroups[t] :
              \E k \in DOMAIN processed[t] :
                  /\ processed[t][k].Offset = inFlightMessageGroups[t][i].incomingMessage.Offset
                  /\ inFlightMessageGroups[t][i].committed = processed[t][k].requested

\* A queue holds a committed group, one of whose messages has been acked
\* since, followed by the group of a record that requested no commit.
C15_Witness ==
    \E t \in Topics :
        /\ Len(inFlightMessageGroups[t]) >= 2
        /\ inFlightMessageGroups[t][1].committed
        /\ \E i \in DOMAIN inFlightMessageGroups[t][1].inFlightMessages :
              inFlightMessageGroups[t][1].inFlightMessages[i].ack
        /\ ~inFlightMessageGroups[t][2].committed

\* The length of the maximal prefix of complete groups of a queue.
RECURSIVE CompletePrefix(_)
CompletePrefix(queue) ==
    IF queue = <<>> \/ ~allAcksAreTrue(queue[1]) THEN 0 ELSE 1 + CompletePrefix(Tail(queue))

\* C16: onProcessCompleted calls no MarkOffset and, of a queue that starts
\* with a maximal prefix of k complete groups, removes exactly the first k - 1
\* when k >= 2 and nothing when k <= 1: the last group of the prefix is left
\* at the head and a non-empty queue stays non-empty.
C16_InteriorPruneResult ==
    last.op = "onProcessCompleted" =>
        /\ markedOffsets = last.marked
        /\ \A t \in Topics :
              LET k == CompletePrefix(last.groups[t]) IN
              /\ HeadRemoval(t)
              /\ RemovedCount(t) = IF k >= 2 THEN k - 1 ELSE 0
              /\ last.groups[t] # <<>> => inFlightMessageGroups[t] # <<>>
              /\ k >= 1 => inFlightMessageGroups[t][1] = last.groups[t][k]

\* onProcessCompleted met a queue of two complete groups followed by an
\* incomplete one and dropped the first.
C16_Witness ==
    /\ last.op = "onProcessCompleted"
    /\ \E t \in Topics :
          /\ Len(last.groups[t]) = 3
          /\ CompletePrefix(last.groups[t]) = 2
          /\ RemovedCount(t) = 1

\* C17: under the glue with every dispatched message acked, a topic for which
\* isReadyForMessage is false becomes ready again, whatever the bound and
\* whatever the records, those that send no message included.
C17_BackpressureClears ==
    \A t \in Topics :
        ~isReadyForMessage(inFlightMessageGroups, t)
            ~> isReadyForMessage(inFlightMessageGroups, t)

\* C18: under the glue onProducerAck never ends fatally: every dispatched
\* message not yet acked has the group of its originating record in the queue
\* of that record's topic, with its own InFlightMessage in it, not yet acked.
C18_AckFindsGroupAndMessage ==
    /\ fatal = "none"
    /\ \A m \in producerInput :
          \E k \in DOMAIN inFlightMessageGroups[m.Metadata.Topic] :
              LET group == inFlightMessageGroups[m.Metadata.Topic][k] IN
              /\ group.incomingMessage = m.Metadata
              /\ \E i \in DOMAIN group.inFlightMessages :
                    /\ group.inFlightMessages[i].msg = m
                    /\ ~group.inFlightMessages[i].ack

\* An ack found its group behind an older group of the queue, while another
\* dispatched message is still to be acked.
C18_Witness ==
    /\ last.op = "ack"
    /\ fatal = "none"
    /\ producerInput # {}
    /\ \E m \in last.msgs : \E target \in Targets(m) : target[2] = 2

\* C19: in automatic mode the MarkOffset calls of a sequence of process,
\* onProducerAck and markOffsetsIfPossible calls are the same, topic by topic
\* and in the same order, whether onProcessCompleted is called in between at
\* any points or never.
C19_PruneInvisibleToMarking ==
    markOffsetsAutomatically => unpruned.marked = markedOffsets

\* In automatic mode markOffsetsIfPossible makes the one MarkOffset call of a
\* topic so far and takes the one group off a queue that onProcessCompleted
\* had shortened, where the same calls without onProcessCompleted had left
\* a longer queue.
C19_Witness ==
    /\ markOffsetsAutomatically
    /\ last.op = "markOffsetsIfPossible"
    /\ \E t \in Topics :
          /\ NewMarks(t) # <<>>
          /\ Len(markedOffsets[t]) = 1
          /\ Len(processed[t]) >= 2
          /\ RemovedCount(t) = 1
          /\ inFlightMessageGroups[t] = <<>>
          /\ unpruned.groups[t] = <<>>

====
